---- MODULE Spec2Model ----
(***************************************************************************)
(* tokio-uring TcpListener (src/net/tcp/listener.rs): bind and accept.     *)
(*                                                                         *)
(* TcpListener::bind resolves an address specification, walks the          *)
(* candidate iterator and creates/binds/listens a driver Socket.           *)
(* TcpListener::accept submits one accept operation on the inner Socket,   *)
(* awaits its completion and maps it to (TcpStream, SocketAddr).           *)
(*                                                                         *)
(* crate::driver::Socket, the resolver and the kernel are collaborators    *)
(* of the listener; they are modelled from their contract.  Socket handles *)
(* are kernel socket objects, numbered in order of creation and never      *)
(* reused.                                                                 *)
(***************************************************************************)
EXTENDS Integers, Sequences, FiniteSets, TLC

\* ------------------------------------------------------------------ bounds
MaxCands == 2   \* longest candidate sequence a resolution yields
MaxCalls == 2   \* accept calls issued on the listener
MaxConns == 2   \* client connections established

\* --------------------------------------------------------------- constants
BacklogDefault == 64 + 64  \* a bug: the platform's default backlog is passed
BACKLOG == 1024        \* socket.listen(1024)
SOCK_STREAM == 1       \* libc::SOCK_STREAM

Addrs == {"a1", "a2"}              \* candidate endpoints
Calls == 1..MaxCalls               \* accept call ids, in order of issue
Conns == 1..MaxConns               \* client connections; connection i has peer address i
NoAddr == 0                        \* Option<SocketAddr>::None
NoFd == 0                          \* no socket
Fds == 1..(MaxCands + MaxConns)    \* sockets: at most one per candidate and per connection

\* io::Error values
ErrNoSockets == "Could not connect to supplied sockets"
ErrNoPeerAddr == "Could not get socket IP address"
ResolveErrs == {"failed to lookup address information"}
ErrSocket == "EMFILE"              \* socket(2) failed
ErrBind == "EADDRINUSE"            \* bind(2) failed
ErrListen == "EOPNOTSUPP"          \* listen(2) failed
ErrAborted == "ECONNABORTED"       \* accept: connection aborted before acceptance
ErrExhausted == "ENFILE"           \* accept: resource exhaustion

RECURSIVE SeqsUpTo(_, _)
SeqsUpTo(S, n) ==
    IF n = 0 THEN {<<>>}
    ELSE LET shorter == SeqsUpTo(S, n - 1)
         IN  shorter \cup {Append(s, x) : s \in {t \in shorter : Len(t) = n - 1}, x \in S}

\* What addr.to_socket_addrs() does for the address specification:
\* an error, or an ordered sequence of candidates (possibly empty).
AddrSpecs ==
    {[tag |-> "Err", err |-> e, addrs |-> <<>>] : e \in ResolveErrs}
    \cup {[tag |-> "Ok", err |-> "", addrs |-> s] : s \in SeqsUpTo(Addrs, MaxCands)}

\* Results
NoResult == [tag |-> "None", err |-> "", fd |-> NoFd, addr |-> NoAddr]
Err(e) == [tag |-> "Err", err |-> e, fd |-> NoFd, addr |-> NoAddr]
Ok(h, a) == [tag |-> "Ok", err |-> "", fd |-> h, addr |-> a]

VARIABLES
    addr,           \* bind's argument: the resolution behaviour of the specification
    usable,         \* endpoints the OS would let a socket bind to
    pc,             \* position of the bind call
    sockets,        \* bind's local iterator over the candidates
    socket_addr,    \* bind's loop variable
    socket,         \* bind's local Socket
    attempted,      \* history: candidates passed to Socket::bind
    listenLog,      \* history: <<handle, backlog>> of every listen call
    created,        \* history: sockets created by the bind call
    driverLog,      \* history: the Socket calls bind made, each with its result
    bindResult,     \* io::Result<TcpListener>; fd is TcpListener.inner
    fdState,        \* per socket: "free", "open", "listening", "closed"
    owner,          \* per socket: "none", "local", "listener", "driver", "stream"
    peerOf,         \* per socket: the connection it is the end of (0: none)
    backlog,        \* kernel queue of established, not yet accepted connections
    nConns,         \* connections established so far
    callPc,         \* per accept call: "idle", "pending", "returned", "dropped"
    op,             \* per accept call: its driver op: "none", "inflight", "completed",
                    \*   "ignored", "cancelled", "consumed", "discarded"
    comp,           \* per accept call: the completion of its op
    callResult,     \* per accept call: io::Result<(TcpStream, SocketAddr)>
    submitted,      \* history: accept requests submitted by each call
    consumed,       \* history: completions consumed by each call
    overlapped      \* history: two accept calls were pending at the same time

bindVars == <<addr, usable, pc, sockets, socket_addr, socket, attempted, listenLog,
              created, driverLog, bindResult>>
fdVars == <<fdState, owner, peerOf>>
acceptVars == <<backlog, nConns, callPc, op, comp, callResult, submitted, consumed,
                overlapped>>
vars == <<bindVars, fdVars, acceptVars>>

Init ==
    /\ addr \in AddrSpecs
    /\ usable \in SUBSET Addrs
    /\ pc = "start"
    /\ sockets = <<>>
    /\ socket_addr = ""
    /\ socket = NoFd
    /\ attempted = <<>>
    /\ listenLog = <<>>
    /\ created = {}
    /\ driverLog = <<>>
    /\ bindResult = NoResult
    /\ fdState = [h \in Fds |-> "free"]
    /\ owner = [h \in Fds |-> "none"]
    /\ peerOf = [h \in Fds |-> 0]
    /\ backlog = <<>>
    /\ nConns = 0
    /\ callPc = [c \in Calls |-> "idle"]
    /\ op = [c \in Calls |-> "none"]
    /\ comp = [c \in Calls |-> NoResult]
    /\ callResult = [c \in Calls |-> NoResult]
    /\ submitted = [c \in Calls |-> 0]
    /\ consumed = [c \in Calls |-> 0]
    /\ overlapped = FALSE

\* The next socket the kernel creates.
NewFd == CHOOSE h \in Fds : fdState[h] = "free" /\ \A g \in Fds : g < h => fdState[g] # "free"

\* Drop of a Socket (or of a TcpStream, which is a Socket): the handle is closed.
DropSocket(h) ==
    /\ fdState' = [fdState EXCEPT ![h] = "closed"]
    /\ owner' = [owner EXCEPT ![h] = "none"]
    /\ UNCHANGED peerOf

\* ------------------------------------------------------------------- bind

\* A bug: a resolver error is replaced by the listener's own error.
AfterResolveErrorMasked(e) == Err(ErrNoSockets)

\* `?` on to_socket_addrs: the resolver's error is bind's error.
AfterResolveError(e) == Err(e)

\* A bug: an empty resolution falls back to binding a default endpoint.
NoCandidatesDefault == [pc |-> "bind", result |-> NoResult]

\* The loop ends without a candidate: Err(io::Error::new(ErrorKind::Other, ...)).
NoCandidates == [pc |-> "done", result |-> Err(ErrNoSockets)]

\* let mut sockets = addr.to_socket_addrs()?;
BindResolve ==
    /\ pc = "start"
    /\ IF addr.tag = "Err"
       THEN /\ pc' = "done"
            /\ bindResult' = AfterResolveError(addr.err)
            /\ UNCHANGED sockets
       ELSE /\ pc' = "iter"
            /\ sockets' = addr.addrs
            /\ UNCHANGED bindResult
    /\ UNCHANGED <<addr, usable, socket_addr, socket, attempted, listenLog, created,
                   driverLog>>
    /\ UNCHANGED <<fdVars, acceptVars>>

\* while let Some(socket_addr) = sockets.next() { ... } Err(io::Error::new(Other, ...))
BindNext ==
    /\ pc = "iter"
    /\ IF sockets = <<>>
       THEN /\ pc' = NoCandidates.pc
            /\ bindResult' = NoCandidates.result
            /\ UNCHANGED <<sockets, socket_addr>>
       ELSE /\ pc' = "bind"
            /\ socket_addr' = Head(sockets)
            /\ sockets' = Tail(sockets)
            /\ UNCHANGED bindResult
    /\ UNCHANGED <<addr, usable, socket, attempted, listenLog, created, driverLog>>
    /\ UNCHANGED <<fdVars, acceptVars>>

\* Socket::bind(socket_addr, SOCK_STREAM): creates a socket of the given type and
\* binds it.  Outcomes: the socket cannot be created; it is created, cannot be
\* bound and is closed again; it is created and bound.
SocketBind(a, type) ==
    {[res |-> Err(ErrSocket), made |-> NoFd]}
    \cup (IF a \in usable /\ type = SOCK_STREAM
          THEN {[res |-> Ok(NewFd, NoAddr), made |-> NewFd]}
          ELSE {[res |-> Err(ErrBind), made |-> NewFd]})

\* Socket::listen(backlog): the listen call succeeds or fails.
SocketListen(h, n) == {Ok(h, NoAddr), Err(ErrListen)}

\* A bug the loop invites: a failed candidate falls through to the next one.
AfterBindErrorTryNext(e) == [pc |-> "iter", result |-> NoResult]

\* A bug: the failure of the candidate is swallowed and the loop's final error returned.
AfterBindErrorSwallowed(e) == [pc |-> "done", result |-> Err(ErrNoSockets)]

\* `?` on Socket::bind: the error leaves bind at once.
AfterBindError(e) == [pc |-> "done", result |-> Err(e)]

\* A bug: the error of listen is replaced by an error of the listener's own.
AfterListenErrorReplaced(h, e) == [result |-> Err(ErrNoSockets), keep |-> FALSE]

\* A bug: the socket is not dropped when listen fails and stays open.
AfterListenErrorLeak(h, e) == [result |-> Err(e), keep |-> TRUE]

\* A bug: the result of listen is ignored and the listener returned anyway.
AfterListenErrorIgnored(h, e) == [result |-> Ok(h, NoAddr), keep |-> TRUE]

\* `?` on socket.listen: the error leaves bind, the local socket is dropped.
AfterListenError(h, e) == [result |-> Err(e), keep |-> FALSE]

\* let socket = Socket::bind(socket_addr, libc::SOCK_STREAM)?;
BindSocket ==
    /\ pc = "bind"
    /\ attempted' = Append(attempted, socket_addr)
    /\ \E out \in SocketBind(socket_addr, SOCK_STREAM) :
         /\ created' = IF out.made = NoFd THEN created ELSE created \cup {out.made}
         /\ driverLog' = Append(driverLog, [call |-> "bind", res |-> out.res])
         /\ IF out.res.tag = "Ok"
            THEN /\ pc' = "listen"
                 /\ socket' = out.res.fd
                 /\ fdState' = [fdState EXCEPT ![out.made] = "open"]
                 /\ owner' = [owner EXCEPT ![out.made] = "local"]
                 /\ UNCHANGED bindResult
            ELSE /\ pc' = AfterBindError(out.res.err).pc
                 /\ bindResult' = AfterBindError(out.res.err).result
                 /\ fdState' = IF out.made = NoFd THEN fdState
                               ELSE [fdState EXCEPT ![out.made] = "closed"]
                 /\ UNCHANGED <<socket, owner>>
    /\ UNCHANGED <<addr, usable, sockets, socket_addr, listenLog, peerOf>>
    /\ UNCHANGED acceptVars

\* socket.listen(1024)?; return Ok(TcpListener { inner: socket });
BindListen ==
    /\ pc = "listen"
    /\ listenLog' = Append(listenLog, <<socket, BACKLOG>>)
    /\ \E res \in SocketListen(socket, BACKLOG) :
         /\ driverLog' = Append(driverLog, [call |-> "listen", res |-> res])
         /\ IF res.tag = "Ok"
            THEN /\ bindResult' = Ok(socket, NoAddr)
                 /\ fdState' = [fdState EXCEPT ![socket] = "listening"]
                 /\ owner' = [owner EXCEPT ![socket] = "listener"]
                 /\ UNCHANGED peerOf
            ELSE /\ bindResult' = AfterListenError(socket, res.err).result
                 /\ IF AfterListenError(socket, res.err).keep
                    THEN /\ owner' = [owner EXCEPT ![socket] = "listener"]
                         /\ UNCHANGED <<fdState, peerOf>>
                    ELSE DropSocket(socket)
    /\ pc' = "done"
    /\ socket' = NoFd
    /\ UNCHANGED <<addr, usable, sockets, socket_addr, attempted, created>>
    /\ UNCHANGED acceptVars

\* ----------------------------------------------------------------- accept

\* The listener a successful bind returned.
Listening == pc = "done" /\ bindResult.tag = "Ok"

\* A client connects: the kernel queues the established connection.
Connect ==
    /\ Listening
    /\ fdState[bindResult.fd] = "listening"
    /\ nConns < MaxConns
    /\ nConns' = nConns + 1
    /\ backlog' = Append(backlog, nConns + 1)
    /\ UNCHANGED <<callPc, op, comp, callResult, submitted, consumed, overlapped>>
    /\ UNCHANGED <<bindVars, fdVars>>

\* A bug: accept takes the socket out of the listener for its request.
SelfAfterAcceptTaken(l) == NoResult

\* accept(&self): the listener is borrowed shared; self.inner is only read.
SelfAfterAccept(l) == l

\* self.inner.accept(): one accept request is handed to the driver and awaited.
AcceptSubmit(c) ==
    /\ Listening
    /\ callPc[c] = "idle"
    /\ \A d \in Calls : d < c => callPc[d] # "idle" \/ submitted[d] > 0
    /\ callPc' = [callPc EXCEPT ![c] = "pending"]
    /\ op' = [op EXCEPT ![c] = "inflight"]
    /\ submitted' = [submitted EXCEPT ![c] = @ + 1]
    /\ overlapped' = (overlapped \/ \E d \in Calls : callPc[d] = "pending")
    /\ bindResult' = SelfAfterAccept(bindResult)
    /\ UNCHANGED <<backlog, nConns, comp, callResult, consumed>>
    /\ UNCHANGED <<addr, usable, pc, sockets, socket_addr, socket, attempted, listenLog,
                   created, driverLog>>
    /\ UNCHANGED fdVars

\* The driver completes the request of call c with an error.
DriverCompleteErr(c) ==
    /\ op[c] \in {"inflight", "ignored"}
    /\ \/ /\ comp' = [comp EXCEPT ![c] = Err(ErrExhausted)]
          /\ UNCHANGED backlog
       \/ /\ backlog # <<>>
          /\ comp' = [comp EXCEPT ![c] = Err(ErrAborted)]
          /\ backlog' = Tail(backlog)
    /\ op' = [op EXCEPT ![c] = IF @ = "ignored" THEN "discarded" ELSE "completed"]
    /\ UNCHANGED <<nConns, callPc, callResult, submitted, consumed, overlapped>>
    /\ UNCHANGED <<bindVars, fdVars>>

\* The driver completes the request of call c with the connection at the head of
\* the queue: a new connected socket, with or without the peer's address.  The
\* result of a request whose future was dropped is discarded.
DriverCompleteConn(c) ==
    /\ op[c] \in {"inflight", "ignored"}
    /\ backlog # <<>>
    /\ backlog' = Tail(backlog)
    /\ peerOf' = [peerOf EXCEPT ![NewFd] = Head(backlog)]
    /\ \E a \in {Head(backlog), NoAddr} :
         comp' = [comp EXCEPT ![c] = Ok(NewFd, a)]
    /\ IF op[c] = "ignored"
       THEN /\ op' = [op EXCEPT ![c] = "discarded"]
            /\ fdState' = [fdState EXCEPT ![NewFd] = "closed"]
            /\ UNCHANGED owner
       ELSE /\ op' = [op EXCEPT ![c] = "completed"]
            /\ fdState' = [fdState EXCEPT ![NewFd] = "open"]
            /\ owner' = [owner EXCEPT ![NewFd] = "driver"]
    /\ UNCHANGED <<nConns, callPc, callResult, submitted, consumed, overlapped>>
    /\ UNCHANGED bindVars

\* A bug: a missing peer address is passed off as success with a made-up address.
AcceptMapLenient(cp) ==
    IF cp.tag = "Err" THEN Err(cp.err) ELSE Ok(cp.fd, IF cp.addr = NoAddr THEN 1 ELSE cp.addr)

\* A bug: the listener counts as broken once an accept call has failed.
AcceptMapPoisoned(cp) ==
    IF \E d \in Calls : callResult[d].tag = "Err" THEN Err(ErrNoPeerAddr)
    ELSE IF cp.tag = "Err" THEN Err(cp.err)
    ELSE IF cp.addr = NoAddr THEN Err(ErrNoPeerAddr)
    ELSE Ok(cp.fd, cp.addr)

\* A bug: the listener counts as broken once a pending accept call was dropped.
AcceptMapAfterCancel(cp) ==
    IF \E d \in Calls : callPc[d] = "dropped" THEN Err(ErrAborted)
    ELSE IF cp.tag = "Err" THEN Err(cp.err)
    ELSE IF cp.addr = NoAddr THEN Err(ErrNoPeerAddr)
    ELSE Ok(cp.fd, cp.addr)

\* A bug: the stream is built on the listener's own socket, not on the accepted one.
AcceptMapOwnSocket(cp) ==
    IF cp.tag = "Err" THEN Err(cp.err)
    ELSE IF cp.addr = NoAddr THEN Err(ErrNoPeerAddr)
    ELSE Ok(bindResult.fd, cp.addr)

\* The body of accept after the await: `?` passes the driver's error on, the
\* socket becomes the stream, a missing address becomes an error.
AcceptMap(cp) ==
    IF cp.tag = "Err" THEN Err(cp.err)
    ELSE IF cp.addr = NoAddr THEN Err(ErrNoPeerAddr)
    ELSE Ok(cp.fd, cp.addr)

\* A bug: the accepted socket escapes the stream on the error path and stays open.
StreamFateLeak(cp, res) ==
    IF res.tag = "Ok" /\ res.fd = cp.fd THEN "stream" ELSE "leaked"

\* What becomes of the accepted socket: `stream` owns it from line 71 on; it is
\* moved into the Ok result, or dropped when `?` leaves with the error.
StreamFate(cp, res) ==
    IF res.tag = "Ok" /\ res.fd = cp.fd THEN "stream" ELSE "dropped"

\* A bug: accept loops and submits again when the request failed.
AcceptExitRetry(res) == IF res.tag = "Err" THEN "idle" ELSE "returned"

\* A bug: accept awaits a second completion before it returns.
AcceptExitAwaitAgain(res) == "pending"

\* Every path through the body of accept returns to the caller.
AcceptExit(res) == "returned"

\* The await resumes with the completion of this call's own request; accept returns.
AcceptReturn(c) ==
    /\ callPc[c] = "pending"
    /\ op[c] = "completed"
    /\ consumed' = [consumed EXCEPT ![c] = @ + 1]
    /\ op' = [op EXCEPT ![c] = "consumed"]
    /\ LET res == AcceptMap(comp[c]) IN
         /\ callResult' = [callResult EXCEPT ![c] = res]
         /\ callPc' = [callPc EXCEPT ![c] = AcceptExit(res)]
         /\ IF comp[c].tag # "Ok"
            THEN UNCHANGED fdVars
            ELSE IF StreamFate(comp[c], res) = "stream"
            THEN /\ owner' = [owner EXCEPT ![comp[c].fd] = "stream"]
                 /\ UNCHANGED <<fdState, peerOf>>
            ELSE IF StreamFate(comp[c], res) = "dropped"
            THEN DropSocket(comp[c].fd)
            ELSE /\ owner' = [owner EXCEPT ![comp[c].fd] = "none"]
                 /\ UNCHANGED <<fdState, peerOf>>
    /\ UNCHANGED <<backlog, nConns, comp, submitted, overlapped>>
    /\ UNCHANGED bindVars

\* The task awaiting call c is dropped before accept returned.  The driver cancels
\* the request in the kernel or lets it complete and discards the result; a
\* completion that already arrived is dropped with the future.
AcceptDrop(c) ==
    /\ callPc[c] = "pending"
    /\ callPc' = [callPc EXCEPT ![c] = "dropped"]
    /\ IF op[c] = "completed"
       THEN /\ op' = [op EXCEPT ![c] = "discarded"]
            /\ IF comp[c].tag = "Ok" THEN DropSocket(comp[c].fd) ELSE UNCHANGED fdVars
       ELSE /\ \E o \in {"cancelled", "ignored"} : op' = [op EXCEPT ![c] = o]
            /\ UNCHANGED fdVars
    /\ UNCHANGED <<backlog, nConns, comp, callResult, submitted, consumed, overlapped>>
    /\ UNCHANGED bindVars

Next ==
    \/ BindResolve
    \/ BindNext
    \/ BindSocket
    \/ BindListen
    \/ Connect
    \/ \E c \in Calls : AcceptSubmit(c)
    \/ \E c \in Calls : DriverCompleteErr(c)
    \/ \E c \in Calls : DriverCompleteConn(c)
    \/ \E c \in Calls : AcceptReturn(c)
    \/ \E c \in Calls : AcceptDrop(c)

Spec == Init /\ [][Next]_vars

\* ----------------------------------------------------------------- claims
ListenerFd == bindResult.fd
Returned(c) == callPc[c] = "returned"
Failed(c) == Returned(c) /\ callResult[c].tag = "Err"
Succeeded(c) == Returned(c) /\ callResult[c].tag = "Ok"
BindDone == pc = "done"
BindFailed == BindDone /\ bindResult.tag = "Err"
ListenerIntact ==
    /\ bindResult.tag = "Ok"
    /\ listenLog # <<>>
    /\ bindResult = Ok(listenLog[1][1], NoAddr)
    /\ fdState[ListenerFd] = "listening"
    /\ owner[ListenerFd] = "listener"

\* C1: bind attempts at most one candidate, the first of the resolved sequence;
\* the iterator is never advanced past it, and a failed attempt ends bind with
\* the error of that attempt, whatever the later candidates are.
C1_OnlyFirstCandidateAttempted ==
    /\ Len(attempted) <= 1
    /\ attempted # <<>> =>
         /\ addr.tag = "Ok"
         /\ addr.addrs # <<>>
         /\ attempted[1] = addr.addrs[1]
         /\ sockets = Tail(addr.addrs)
    /\ (pc \in {"bind", "listen"} \/ attempted # <<>>) => Len(listenLog) <= Len(attempted)
    /\ (BindFailed /\ attempted # <<>>) =>
         /\ Len(attempted) = 1
         /\ bindResult.err \in {ErrSocket, ErrBind, ErrListen}

\* C1 witness: the first candidate failed, bind is over with that error, and the
\* second candidate, which the OS would have accepted, was never attempted.
C1_Witness ==
    /\ BindFailed
    /\ bindResult.err = ErrBind
    /\ Len(addr.addrs) >= 2
    /\ attempted = <<addr.addrs[1]>>
    /\ addr.addrs[2] \in usable

\* C2: when the resolution yields no candidate, no socket is created, bound or
\* listened on at any point of the bind call, and the call ends with the
\* "no usable address" error.
C2_EmptyResolutionFailsBeforeAnySocket ==
    (addr.tag = "Ok" /\ addr.addrs = <<>>) =>
        /\ created = {}
        /\ attempted = <<>>
        /\ listenLog = <<>>
        /\ \A h \in Fds : fdState[h] = "free"
        /\ pc \in {"start", "iter", "done"}
        /\ BindDone => bindResult = Err(ErrNoSockets)

\* C2 witness: a bind call on an empty resolution result has ended.
C2_Witness ==
    /\ addr.tag = "Ok"
    /\ addr.addrs = <<>>
    /\ BindDone
    /\ bindResult.tag = "Err"

\* C3: an accept call whose completion carries a connected socket but no peer
\* address returns the "could not get socket IP address" error, and on return
\* the connected socket is closed: no caller and no listener owns it.
C3_MissingPeerAddressClosesHandle ==
    \A c \in Calls :
        (Returned(c) /\ comp[c].tag = "Ok" /\ comp[c].addr = NoAddr) =>
            /\ callResult[c] = Err(ErrNoPeerAddr)
            /\ fdState[comp[c].fd] = "closed"
            /\ owner[comp[c].fd] = "none"
            /\ \A d \in Calls : callResult[d].fd # comp[c].fd

\* C3 witness: a call returned on a completion with a socket and no address.
C3_Witness ==
    \E c \in Calls :
        /\ Returned(c)
        /\ comp[c].tag = "Ok"
        /\ comp[c].addr = NoAddr
        /\ comp[c].fd \in Fds
        /\ peerOf[comp[c].fd] \in Conns

\* C4: an accept call submits one request and consumes one completion, never
\* more, also when the completion is an error or lacks the peer address.
C4_OneRequestOneCompletion ==
    \A c \in Calls :
        /\ submitted[c] <= 1
        /\ consumed[c] <= submitted[c]
        /\ callPc[c] = "idle" => submitted[c] = 0
        /\ callPc[c] \in {"pending", "dropped"} => submitted[c] = 1 /\ consumed[c] = 0
        /\ Returned(c) => submitted[c] = 1 /\ consumed[c] = 1

\* C4 witness: one call returned a driver error, another a missing-address
\* error, each after one request and one completion.
C4_Witness ==
    \E c, d \in Calls :
        /\ Failed(c) /\ comp[c].tag = "Err"
        /\ Failed(d) /\ comp[d].tag = "Ok"
        /\ submitted[c] = 1 /\ consumed[c] = 1
        /\ submitted[d] = 1 /\ consumed[d] = 1

\* The connection an accept call was given.
ConnOf(c) == peerOf[callResult[c].fd]

\* C5: accept calls that return Ok return distinct sockets of distinct
\* connections with distinct peer addresses, each call completes at most once,
\* and when as many calls returned Ok as connections were established every
\* connection went to exactly one call.
C5_ConcurrentAcceptsGetDistinctConnections ==
    LET okCalls == {c \in Calls : callResult[c].tag = "Ok"} IN
    /\ \A c \in Calls : consumed[c] <= 1
    /\ \A c \in okCalls :
         /\ callResult[c].fd \in Fds
         /\ ConnOf(c) \in 1..nConns
         /\ callResult[c].addr = ConnOf(c)
    /\ \A c, d \in okCalls :
         c # d => /\ callResult[c].fd # callResult[d].fd
                  /\ callResult[c].addr # callResult[d].addr
                  /\ ConnOf(c) # ConnOf(d)
    /\ Cardinality(okCalls) = nConns =>
         \A k \in 1..nConns : Cardinality({c \in okCalls : ConnOf(c) = k}) = 1

\* C5 witness: two calls were pending together, two connections were
\* established, and both calls returned Ok.
C5_Witness ==
    /\ overlapped
    /\ nConns = 2
    /\ Succeeded(1)
    /\ Succeeded(2)

\* C6: failed accept calls leave the listener bound and listening, and any call
\* whose request completes with a connection and its peer address returns that
\* stream and address, however many calls failed before.
C6_FailedAcceptLeavesListenerUsable ==
    /\ (\E c \in Calls : Failed(c)) => ListenerIntact
    /\ \A d \in Calls :
         (Returned(d) /\ comp[d].tag = "Ok" /\ comp[d].addr # NoAddr
            /\ \E c \in Calls : c < d /\ Failed(c)) =>
                callResult[d] = Ok(comp[d].fd, comp[d].addr)

\* C6 witness: the first call failed and the second, issued after the first
\* had returned, succeeded.
C6_Witness ==
    /\ ~overlapped
    /\ Failed(1)
    /\ Succeeded(2)

\* C7: dropping a pending accept call leaves the listener and its socket as
\* bind returned them; the dropped call returns nothing and consumes nothing; a
\* later call whose request completes with a connection returns that
\* connection, which is not the one the dropped call's request completed with.
C7_DroppedAcceptLeavesListenerUsable ==
    \A c \in Calls :
        callPc[c] = "dropped" =>
            /\ ListenerIntact
            /\ callResult[c] = NoResult
            /\ consumed[c] = 0
            /\ op[c] \in {"cancelled", "ignored", "discarded"}
            /\ \A d \in Calls :
                 (Returned(d) /\ comp[d].tag = "Ok" /\ comp[d].addr # NoAddr) =>
                     /\ callResult[d] = Ok(comp[d].fd, comp[d].addr)
                     /\ comp[c].tag = "Ok" => comp[c].fd # callResult[d].fd
                     /\ consumed[d] = 1

\* C7 witness: the first call was dropped while pending and its request later
\* completed with a connection that was discarded; the second call was issued
\* after the drop and succeeded on another connection.
C7_Witness ==
    /\ ~overlapped
    /\ callPc[1] = "dropped"
    /\ op[1] = "discarded"
    /\ comp[1].tag = "Ok"
    /\ Succeeded(2)
    /\ ConnOf(2) # peerOf[comp[1].fd]

\* C8: a successful bind has created exactly one socket, which is listening and
\* owned by the returned listener; a failed bind returns no listener and no
\* socket is owned by a listener.
C8_BindReturnsOneListeningSocketOrNone ==
    /\ ~BindDone => bindResult = NoResult
    /\ (BindDone /\ bindResult.tag = "Ok") =>
         /\ Cardinality(created) = 1
         /\ ListenerFd \in created
         /\ fdState[ListenerFd] = "listening"
         /\ owner[ListenerFd] = "listener"
         /\ \A h \in Fds \ {ListenerFd} : owner[h] # "listener"
    /\ BindFailed =>
         /\ bindResult.fd = NoFd
         /\ \A h \in Fds : owner[h] # "listener"
    /\ BindDone => bindResult.tag \in {"Ok", "Err"}

\* C8 witness: bind succeeded.
C8_Witness ==
    /\ BindDone
    /\ bindResult.tag = "Ok"
    /\ created = {ListenerFd}

\* C9 as stated: when the resolver reports an error, bind fails with the
\* same "no usable address" error as for an empty resolution result.
C9_ResolverErrorIsNoUsableAddress ==
    (addr.tag = "Err" /\ BindDone) => bindResult = Err(ErrNoSockets)

\* C9 amended: when the resolver reports an error, bind fails with that very
\* error, which is not the "no usable address" error of an empty resolution
\* result, and no socket is created.
C9_ResolverErrorIsPassedOn ==
    addr.tag = "Err" =>
        /\ created = {}
        /\ attempted = <<>>
        /\ pc \in {"start", "done"}
        /\ BindDone => /\ bindResult = Err(addr.err)
                       /\ bindResult.err # ErrNoSockets

\* C9 witness: bind has ended on a resolver error.
C9_Witness ==
    /\ addr.tag = "Err"
    /\ BindFailed

\* C10: the result of a returned accept call is determined by the completion of
\* its request: the driver's error unchanged, or the stream on the delivered
\* socket with the delivered address, or the missing-address error; an Ok
\* result carries a present address and the delivered socket, owned by the
\* stream.
C10_AcceptResultIsFunctionOfCompletion ==
    \A c \in Calls :
        /\ Returned(c) =>
             /\ comp[c].tag \in {"Ok", "Err"}
             /\ comp[c].tag = "Err" => callResult[c] = Err(comp[c].err)
             /\ (comp[c].tag = "Ok" /\ comp[c].addr # NoAddr) =>
                    callResult[c] = Ok(comp[c].fd, comp[c].addr)
             /\ (comp[c].tag = "Ok" /\ comp[c].addr = NoAddr) =>
                    callResult[c] = Err(ErrNoPeerAddr)
        /\ callResult[c].tag = "Ok" =>
             /\ callResult[c].addr # NoAddr
             /\ callResult[c].fd = comp[c].fd
             /\ callResult[c].addr = comp[c].addr
             /\ fdState[callResult[c].fd] = "open"
             /\ owner[callResult[c].fd] = "stream"
        /\ ~Returned(c) => callResult[c] = NoResult

\* C10 witness: one call returned Ok and another returned the driver's error.
C10_Witness ==
    \E c, d \in Calls :
        /\ Succeeded(c)
        /\ Failed(d)
        /\ comp[d].tag = "Err"
        /\ callResult[d].err = comp[d].err

\* Who holds a live reference to socket h.
DriverHolds(h) == \E c \in Calls : op[c] = "completed" /\ comp[c].tag = "Ok" /\ comp[c].fd = h
StreamHolds(h) == \E c \in Calls : callResult[c].tag = "Ok" /\ callResult[c].fd = h
ListenerHolds(h) == bindResult.tag = "Ok" /\ bindResult.fd = h
Holders(h) ==
    (IF DriverHolds(h) THEN {"driver"} ELSE {})
    \cup (IF StreamHolds(h) THEN {"stream"} ELSE {})
    \cup (IF ListenerHolds(h) THEN {"listener"} ELSE {})
Accepted(h) == peerOf[h] # 0

\* C11: a connected socket produced by an accept completion has exactly one
\* live owner while it is open: the driver until the completion is delivered,
\* then the returned stream; once closed nobody holds it.  The listener never
\* holds it, and the driver and a stream never hold it together; one
\* completion slot or one result holds it, never two.
C11_AcceptedHandleHasOneOwner ==
    \A h \in Fds :
        Accepted(h) =>
            /\ fdState[h] \in {"open", "closed"}
            /\ ~ListenerHolds(h)
            /\ ~(DriverHolds(h) /\ StreamHolds(h))
            /\ fdState[h] = "open" =>
                 /\ Cardinality(Holders(h)) = 1
                 /\ Holders(h) = {owner[h]}
                 /\ Cardinality({c \in Calls : op[c] = "completed" /\ comp[c].fd = h})
                      + Cardinality({c \in Calls : callResult[c].fd = h}) = 1
            /\ fdState[h] = "closed" =>
                 /\ Holders(h) = {}
                 /\ owner[h] = "none"

\* C11 witness: one accepted socket is still with the driver, its completion
\* not yet delivered, while another has been moved into a returned stream.
C11_Witness ==
    \E g, h \in Fds :
        /\ Accepted(g) /\ Holders(g) = {"driver"} /\ fdState[g] = "open"
        /\ Accepted(h) /\ Holders(h) = {"stream"} /\ fdState[h] = "open"

\* A step of an accept call or of its request: submission, completion, return, drop.
AcceptStep == callPc' # callPc \/ op' # op

\* The listener's socket handle and its state are as they were.
ListenerUnchanged ==
    /\ bindVars' = bindVars
    /\ ListenerFd \in Fds =>
         /\ fdState'[ListenerFd] = fdState[ListenerFd]
         /\ owner'[ListenerFd] = owner[ListenerFd]
         /\ peerOf'[ListenerFd] = peerOf[ListenerFd]

\* C12: no step of an accept call (submission, completion of its request,
\* successful or failed return, cancellation) changes the listener: its socket
\* handle, that socket's listening state and its owner stay as they are; only
\* per-request state and the accepted sockets change.
C12_AcceptLeavesListenerUnchanged == [][AcceptStep => ListenerUnchanged]_vars

\* C12 witness: calls have been submitted, one returned Ok, one failed or was
\* dropped, and the listener is as bind returned it.
C12_Witness ==
    /\ ListenerIntact
    /\ \E c, d \in Calls :
         /\ Succeeded(c)
         /\ Failed(d) \/ callPc[d] = "dropped"

\* C13: while an accept call is pending, another accept call on the listener
\* can be submitted; a call whose own request has completed can return whatever
\* the state of the other calls; a call whose own request has not completed has
\* not been resumed by the completion of another request.
C13_SuspensionIsRequestScoped ==
    \A c, d \in Calls :
        (c # d /\ callPc[c] = "pending") =>
            /\ (callPc[d] = "idle" /\ \A e \in Calls : e < d => callPc[e] # "idle") =>
                   ENABLED AcceptSubmit(d)
            /\ (callPc[d] = "pending" /\ op[d] = "completed") => ENABLED AcceptReturn(d)
            /\ (callPc[d] = "pending" /\ op[d] = "inflight") =>
                   /\ callResult[d] = NoResult
                   /\ consumed[d] = 0
            /\ Returned(d) => op[d] = "consumed" /\ consumed[d] = 1
            /\ (op[c] = "inflight" /\ op[d] \in {"completed", "consumed"}) =>
                   callResult[c] = NoResult

\* C13 witness: the second call was submitted while the first was pending and
\* has returned, and the first is still pending on its own request.
C13_Witness ==
    /\ overlapped
    /\ callPc[1] = "pending"
    /\ op[1] = "inflight"
    /\ Returned(2)

\* ------------------------------------------------------------ fairness

\* bind runs to its return without suspending; the driver hands a queued
\* connection to a request in flight; the scheduler resumes a task whose
\* request has completed.  Nothing obliges clients to connect, callers to call
\* accept, tasks to be dropped or requests to fail.
BindStep == BindResolve \/ BindNext \/ BindSocket \/ BindListen
Fairness ==
    /\ WF_vars(BindStep)
    /\ \A c \in Calls : WF_vars(DriverCompleteConn(c))
    /\ \A c \in Calls : WF_vars(AcceptReturn(c))
\* The accept calls do not depend on the candidates bind left untried: the fair
\* specification starts from the resolutions of at most one candidate.
FairInit == Init /\ Len(addr.addrs) <= 1
FairSpec == FairInit /\ [][Next]_vars /\ Fairness

\* Requests the kernel still holds, those of dropped calls included.
InFlight == {c \in Calls : op[c] \in {"inflight", "ignored"}}
Pending == {c \in Calls : callPc[c] = "pending"}
NoMoreCalls == \A c \in Calls : callPc[c] # "idle"

\* C14 as stated: whenever at least as many connections are queued as there
\* are pending accept calls, each of those calls eventually completes.
C14_PendingCompletesWhenEnoughConnections ==
    \A c \in Calls :
        (callPc[c] = "pending" /\ Len(backlog) >= Cardinality(Pending))
            ~> (callPc[c] # "pending")

\* C14 amended: under fair scheduling, once every accept call has been issued
\* and at least as many connections are queued as there are requests in flight
\* (those of dropped calls that were not cancelled included), every pending
\* call eventually returns, unless its task is dropped; and a call that
\* returned Ok was given a connection that had been established.
C14_PendingCompletesWhenEnoughForAllRequests ==
    /\ \A c \in Calls :
         (callPc[c] = "pending" /\ NoMoreCalls /\ Len(backlog) >= Cardinality(InFlight))
             ~> (callPc[c] \in {"returned", "dropped"})
    /\ [](\A c \in Calls :
            callResult[c].tag = "Ok" =>
                /\ nConns >= 1
                /\ callResult[c].fd \in Fds
                /\ peerOf[callResult[c].fd] \in 1..nConns
                /\ \A i \in 1..Len(backlog) : backlog[i] # peerOf[callResult[c].fd])

\* C14 witness: every call has been issued, the calls were pending together,
\* one has returned Ok and the other is pending with its request in flight and
\* a connection queued for it.
C14_Witness ==
    /\ NoMoreCalls
    /\ overlapped
    /\ \E c, d \in Calls :
         /\ Succeeded(c)
         /\ callPc[d] = "pending"
         /\ op[d] = "inflight"
         /\ InFlight = {d}
         /\ Len(backlog) >= 1

\* The terminal outcomes of a bind call.
BoundSuccess == BindDone /\ bindResult.tag = "Ok" /\ bindResult.fd \in Fds
NoCandidatesOutcome == BindDone /\ bindResult = Err(ErrNoSockets)
BindFailure == BindDone /\ bindResult.tag = "Err" /\ bindResult.err \in {ErrSocket, ErrBind, ErrListen}
ResolveFailure == BindDone /\ bindResult.tag = "Err" /\ bindResult.err \in ResolveErrs
Count(b) == IF b THEN 1 ELSE 0

\* C15 as stated: a bind call that has returned is in exactly one of the
\* outcomes BoundSuccess, NoCandidates, BindFailure.
C15_BindEndsInOneOfThreeOutcomes ==
    BindDone => Count(BoundSuccess) + Count(NoCandidatesOutcome) + Count(BindFailure) = 1

\* C15 amended: a bind call that has not returned can take its next step, and
\* the head of its loop is never reached again after a candidate was taken;
\* once the call has returned, it is in exactly one of
\* the outcomes BoundSuccess, NoCandidates, BindFailure or, when the resolver
\* itself failed, ResolveFailure with the resolver's error; the outcome is
\* ResolveFailure only for a resolver failure, NoCandidates only for an empty
\* resolution result, and a result is never left unset.
C15_BindEndsInOneOutcome ==
    /\ ~BindDone =>
         /\ ENABLED BindStep
         /\ bindResult = NoResult
    /\ (pc = "start") => (attempted = <<>> /\ sockets = <<>>)
    /\ (pc = "iter") => (addr.tag = "Ok" /\ sockets = addr.addrs /\ attempted = <<>>)
    /\ (pc = "bind") => (Len(sockets) < Len(addr.addrs) /\ attempted = <<>>)
    /\ (pc = "listen") => (Len(attempted) = 1 /\ listenLog = <<>>)
    /\ BindDone =>
         /\ Count(BoundSuccess) + Count(NoCandidatesOutcome) + Count(BindFailure)
              + Count(ResolveFailure) = 1
         /\ bindResult.tag \in {"Ok", "Err"}
         /\ ResolveFailure <=> addr.tag = "Err"
         /\ NoCandidatesOutcome <=> (addr.tag = "Ok" /\ addr.addrs = <<>>)
         /\ (addr.tag = "Ok" /\ Len(addr.addrs) >= 1) => (BoundSuccess \/ BindFailure)

\* C15 witness: a bind call on a resolution with candidates has returned a
\* failure of its first candidate.
C15_Witness ==
    /\ addr.tag = "Ok"
    /\ Len(addr.addrs) >= 1
    /\ BindFailure
    /\ ~NoCandidatesOutcome

\* The last Socket call bind made.
LastCall == driverLog[Len(driverLog)]

\* C16: bind returns Ok only after Socket::bind on the first candidate and then
\* listen on the socket it returned have both succeeded, in that order; listen
\* is invoked only on a socket Socket::bind returned, never after a failed
\* Socket::bind; the backlog passed is always 1024.
C16_OkOnlyAfterBindThenListen1024 ==
    /\ Len(driverLog) <= 2
    /\ Len(listenLog) <= 1
    /\ \A i \in 1..Len(listenLog) : listenLog[i][2] = 1024
    /\ \A i \in 1..Len(driverLog) :
         /\ driverLog[i].call = "bind" => i = 1
         /\ driverLog[i].call = "listen" =>
              /\ i = 2
              /\ driverLog[1].call = "bind"
              /\ driverLog[1].res.tag = "Ok"
              /\ listenLog = <<<<driverLog[1].res.fd, 1024>>>>
    /\ (driverLog # <<>> /\ driverLog[1].res.tag = "Err") =>
         /\ listenLog = <<>>
         /\ Len(driverLog) = 1
         /\ \A h \in Fds : fdState[h] # "listening"
    /\ (BindDone /\ bindResult.tag = "Ok") =>
         /\ attempted = <<addr.addrs[1]>>
         /\ Len(driverLog) = 2
         /\ driverLog[1] = [call |-> "bind", res |-> Ok(bindResult.fd, NoAddr)]
         /\ driverLog[2] = [call |-> "listen", res |-> Ok(bindResult.fd, NoAddr)]
         /\ listenLog = <<<<bindResult.fd, 1024>>>>
         /\ fdState[bindResult.fd] = "listening"

\* C16 witness: bind returned the listener after Socket::bind and listen(1024).
C16_Witness ==
    /\ BindDone
    /\ bindResult.tag = "Ok"
    /\ Len(driverLog) = 2
    /\ listenLog = <<<<bindResult.fd, 1024>>>>

\* C17: when Socket::bind (socket creation or bind) or listen fails on the
\* first candidate, the error bind returns is the error that call reported,
\* not the "no usable address" error nor any other.
C17_BindErrorIsDriverError ==
    /\ (driverLog # <<>> /\ LastCall.res.tag = "Err") =>
         /\ BindFailed
         /\ bindResult = Err(LastCall.res.err)
         /\ bindResult.err \in {ErrSocket, ErrBind, ErrListen}
         /\ bindResult.err # ErrNoSockets
    /\ (BindFailed /\ attempted # <<>>) =>
         /\ driverLog # <<>>
         /\ LastCall.res.tag = "Err"
         /\ bindResult.err = LastCall.res.err

\* C17 witness: listen failed and bind returned its error.
C17_Witness ==
    /\ BindFailed
    /\ Len(driverLog) = 2
    /\ LastCall.call = "listen"
    /\ bindResult.err = ErrListen

\* C18: after a failed bind no socket the call created is open: one that could
\* not be bound, and one that was bound when listen failed, is closed by the
\* time bind has returned the error, and nobody owns it.
C18_FailedBindLeavesNoOpenSocket ==
    BindFailed =>
        /\ \A h \in created : fdState[h] = "closed" /\ owner[h] = "none"
        /\ \A h \in Fds : fdState[h] \in {"free", "closed"}
        /\ Cardinality({h \in Fds : fdState[h] \in {"open", "listening"}}) = 0

\* C18 witness: the socket was created and bound, listen failed, bind returned
\* the error and the socket is closed.
C18_Witness ==
    /\ BindFailed
    /\ bindResult.err = ErrListen
    /\ created # {}
    /\ \A h \in created : fdState[h] = "closed"

====
